---- MODULE Spec2Model ----
(***************************************************************************)
(* A model of the Fin-Tracker ingestion-and-analysis pipeline:             *)
(*   main.py      the transactions table, store_transaction,               *)
(*                email_already_processed and the run_finance_tracker loop *)
(*   analyzer.py  EmailAnalyzer: analyze_email, _classify_email,           *)
(*                _extract_transaction and their retry loops               *)
(*   tools.py     GmailClient.fetch_emails: the fold of the listed         *)
(*                messages into one Conversation per thread                *)
(* The state is shared by eight specifications:                            *)
(*   SpecStore    store_transaction / clear_transactions called directly   *)
(*   SpecWriters  two processes checking and inserting concurrently        *)
(*   SpecAnalyze  one analyze_email call, for every oracle behaviour       *)
(*   Spec         run_finance_tracker with analyze_email inlined           *)
(*   FairSpec     the same loop, always making progress                    *)
(*   SpecWindow   the fetch window of a cycle, over every stored table     *)
(*   SpecFetch    one fetch_emails call, over every listing                *)
(*   SpecParts    one fetch_emails call on a mailbox with attachments, for *)
(*                every answer of the gets and of the downloads            *)
(*   SpecSchema   the tracker and the dashboard creating the table, in     *)
(*                either order, and the stores that follow                 *)
(***************************************************************************)
EXTENDS Integers, Sequences, FiniteSets, Bags, TLC

VARIABLES
    db,             \* the transactions table: a bag of rows
    hist,           \* SpecStore: the store_transaction calls made in a row
    columns,        \* the columns of the transactions table; none while there is no table
    wpc,            \* SpecWriters: each writer's position
    wtx,            \* SpecWriters: the transaction each writer holds
    wseen,          \* SpecWriters: what email_already_processed returned
    wrowcount,      \* SpecWriters: cursor.rowcount after execute
    wret,           \* SpecWriters: what store_transaction returned
    werr,           \* SpecWriters: the sqlite3 error a writer met, if any
    wlock,          \* SpecWriters: the holder of the database write lock
    pc,             \* Spec: position of run_finance_tracker
    emails,         \* Spec: the conversations fetched in this cycle
    idx,            \* Spec: index of the conversation being handled
    success,        \* Spec: what store_transaction returned in this iteration
    MAX_RETRIES,    \* Config.MAX_RETRIES, read from the environment
    apc,            \* position inside analyze_email
    email,          \* the argument of analyze_email
    attempt,        \* the loop variable of the running stage
    classification, \* what _classify_email returned
    transaction,    \* what _extract_transaction returned
    result,         \* what analyze_email returned
    response,       \* the running stage's local response: what agent.run returned
    events,         \* per analyze_email call: its agent.run calls and sleeps, in order
    start_time,     \* run_finance_tracker: the window start of the cycle
    end_time,       \* run_finance_tracker: the window end of the cycle
    fpc,            \* position inside fetch_emails
    messages,       \* fetch_emails: the listed messages not yet processed
    threads,        \* fetch_emails: the conversations built so far, in insertion order
    folded,         \* fetch_emails: what became of each processed message, in fetch order
    fresult,        \* fetch_emails: the list it returned
    files           \* fetch_emails: the attachment files written to attachments_dir

storeVars == <<db, hist, columns>>
writerVars == <<wpc, wtx, wseen, wrowcount, wret, werr, wlock>>
loopVars == <<pc, emails, idx, success>>
analyzerVars == <<MAX_RETRIES, apc, email, attempt, classification, transaction, result, response, events>>
windowVars == <<start_time, end_time>>
fetchVars == <<fpc, messages, threads, folded, fresult, files>>
vars == <<db, hist, columns, wpc, wtx, wseen, wrowcount, wret, werr, wlock, pc, emails, idx, success, MAX_RETRIES, apc, email, attempt, classification, transaction, result, response, events, start_time, end_time, fpc, messages, threads, folded, fresult, files>>

(***************************************************************************)
(* Bounds of the model and constants of the program.                       *)
(***************************************************************************)
\* SpecAnalyze: MAX_RETRIES is configured in 0..MaxRetriesCfg
MaxRetriesCfg == 3
\* Spec: MAX_RETRIES is configured in 0..MaxRetriesLoop
MaxRetriesLoop == 2
\* at most MaxFetch conversations come back from one fetch
MaxFetch == 2
\* analyzer.py: RETRY_DELAY default, seconds
RETRY_DELAY == 60
\* main.py: POLLING_INTERVAL default, seconds
POLLING_INTERVAL == 10800
\* main.py: timedelta(hours=24), in minutes
LOOKBACK == 1440
\* main.py: timedelta(minutes=10), in minutes
OVERLAP == 10

\* Python's None, and an absent value in general
None == [kind |-> "None"]

\* the mailbox: messages m1 and m2 belong to thread t1, m3 to thread t2
MsgIds == {"m1", "m2", "m3"}
ThreadOf(m) == IF m = "m3" THEN "t2" ELSE "t1"
ThreadIds == {ThreadOf(m) : m \in MsgIds}

\* the texts an extraction agent puts in transaction_date (a str field that
\* nothing validates), listed in the order of SQLite's BINARY collation, the
\* order MAX() uses on a TEXT column: "" < "2..." < "J..."
DateTexts == <<"", "2024-01-01", "2024-01-01T10:00:00", "2024-01-02T09:30:00", "Jan 5, 2024">>
TextRank(x) == CHOOSE i \in DOMAIN DateTexts : DateTexts[i] = x

\* a datetime, in minutes since 2024-01-01T00:00
Datetime(n) == [minutes |-> n]

\* datetime.fromisoformat: the texts it accepts and the datetime of each; any
\* other text raises ValueError
FromIsoformat ==
    [x \in {"2024-01-01", "2024-01-01T10:00:00", "2024-01-02T09:30:00"} |->
        IF x = "2024-01-01" THEN Datetime(0)
        ELSE IF x = "2024-01-01T10:00:00" THEN Datetime(10 * 60)
        ELSE Datetime(24 * 60 + 9 * 60 + 30)]

(***************************************************************************)
(* The transactions table (main.py init_db) and store_transaction.         *)
(* Columns id and created_at are assigned by the storage layer and read by *)
(* no operation of the program; they are left out of a row.  A table is a  *)
(* bag of rows: equal rows are counted, their order is not kept.           *)
(***************************************************************************)
\* the keys store_transaction reads with transaction[...]
StoreKeys == {"email_id", "thread_id", "from_email", "transaction_date", "amount", "description"}

\* the values bound to the INSERT's seven placeholders
RowOf(t) ==
    [email_id |-> t.email_id,
     thread_id |-> t.thread_id,
     from_email |-> t.from_email,
     transaction_date |-> t.transaction_date,
     amount |-> t.amount,
     description |-> t.description,
     category |-> IF "category" \in DOMAIN t THEN t.category ELSE ""]

\* SELECT 1 FROM transactions WHERE email_id = ?
RowExists(d, m) == \E r \in BagToSet(d) : r.email_id = m

\* the rows of d that satisfy keep, as a table
RowsWhere(d, keep(_)) == [r \in {x \in BagToSet(d) : keep(x)} |-> d[r]]

\* SELECT COUNT(*) FROM transactions WHERE email_id = ?
NumRowsFor(d, m) == BagCardinality(RowsWhere(d, LAMBDA r : r.email_id = m))

StoredIds(d) == {r.email_id : r \in BagToSet(d)}

\* a table without the UNIQUE constraint: no row ever conflicts
UniqueConflict_NoConstraint(d, row) == FALSE

\* email_id TEXT UNIQUE: a new row conflicts with a row of the same email_id
UniqueConflict(d, row) == \E r \in BagToSet(d) : r.email_id = row.email_id

\* INSERT OR REPLACE: the conflicting row is deleted and the new one inserted
InsertOrIgnore_Replace(d, row) ==
    RowsWhere(d, LAMBDA r : r.email_id # row.email_id) (+) SetToBag({row})

\* INSERT OR IGNORE: the table after the statement
InsertOrIgnore(d, row) == IF UniqueConflict(d, row) THEN d ELSE d (+) SetToBag({row})

\* cursor.rowcount after INSERT OR IGNORE
RowCount(d, row) == IF UniqueConflict(d, row) THEN 0 ELSE 1

\* store_transaction's return value compared the wrong way round
StoreReturn_Inverted(rowcount) == rowcount = 0

\* if cursor.rowcount > 0: return True, else: return False
StoreReturn(rowcount) == rowcount > 0

\* store_transaction(t) as one step of a single writer: <<table after, returned>>.
\* dbOk = FALSE is a sqlite3.Error from connect, execute or commit.
store_transaction(d, t, dbOk) ==
    IF ~ dbOk THEN <<d, FALSE>>
    ELSE IF ~ (StoreKeys \subseteq DOMAIN t) THEN <<d, FALSE>>
    ELSE <<InsertOrIgnore(d, RowOf(t)), StoreReturn(RowCount(d, RowOf(t)))>>

\* a check that looks for the thread of the message instead
email_already_processed_ByThread(d, m, dbOk) ==
    IF ~ dbOk THEN FALSE ELSE \E r \in BagToSet(d) : r.thread_id = ThreadOf(m)

\* email_already_processed(m): any exception is logged and answered False
email_already_processed(d, m, dbOk) == IF ~ dbOk THEN FALSE ELSE RowExists(d, m)

\* SELECT MAX(transaction_date) FROM transactions: NULL on an empty table
MaxDate(d) ==
    IF BagToSet(d) = {}
    THEN None
    ELSE LET dates == {row.transaction_date : row \in BagToSet(d)}
         IN  CHOOSE x \in dates : \A y \in dates : TextRank(y) <= TextRank(x)

\* get_last_processed_time(): sqlite3.Error and ValueError are logged and
\* answered None; so are an empty table and an empty text
get_last_processed_time(d, dbOk) ==
    IF ~ dbOk THEN None
    ELSE IF BagToSet(d) = {} THEN None
    ELSE IF MaxDate(d) = "" THEN None
    ELSE IF MaxDate(d) \in DOMAIN FromIsoformat THEN FromIsoformat[MaxDate(d)]
    ELSE None

\* a DELETE that leaves the rows of other senders
clear_transactions_OneSender(d, dbOk) ==
    IF ~ dbOk \/ BagToSet(d) = {} THEN d
    ELSE LET any == CHOOSE r \in BagToSet(d) : TRUE
         IN  RowsWhere(d, LAMBDA r : r.from_email # any.from_email)

\* streamlit_app.py clear_transactions: DELETE FROM transactions
clear_transactions(d, dbOk) == IF ~ dbOk THEN d ELSE EmptyBag

\* the database file holds no transactions table
NoTable == {}

\* the columns of main.py's CREATE TABLE
TrackerColumns ==
    {"id", "email_id", "thread_id", "from_email", "transaction_date", "amount",
     "description", "category", "created_at"}

\* the columns of streamlit_app.py's CREATE TABLE
DashboardColumns ==
    {"id", "email_id", "thread_id", "from_email", "subject", "transaction_date",
     "amount", "description", "raw_data", "created_at"}

\* CREATE TABLE IF NOT EXISTS: a table that exists is left as it is
CreateTableIfNotExists(cols, new) == IF cols = NoTable THEN new ELSE cols

\* main.py init_db()
init_db(cols) == CreateTableIfNotExists(cols, TrackerColumns)

\* streamlit_app.py init_db()
dashboard_init_db(cols) == CreateTableIfNotExists(cols, DashboardColumns)

\* the columns store_transaction's INSERT names
InsertColumns ==
    {"email_id", "thread_id", "from_email", "transaction_date", "amount",
     "description", "category"}

\* the INSERT is prepared: a column the table lacks, and a table that is not
\* there, raise sqlite3.OperationalError
InsertPrepares(cols) == InsertColumns \subseteq cols

(***************************************************************************)
(* Values the collaborators can hand to the program.                       *)
(***************************************************************************)
Variants == {1, 2}

\* the transaction_date of each variant of the extraction agent's answer
TxDates == [v \in Variants |-> IF v = 1 THEN "2024-01-01T10:00:00" ELSE "Jan 5, 2024"]

\* json.dumps(x): the text that encodes x, told apart from x itself
JsonDumps(x) == [json |-> x]
Senders == [v \in Variants |-> IF v = 1 THEN "shop@a.example" ELSE "bank@b.example"]
Descriptions == [v \in Variants |-> IF v = 1 THEN "Payment - CoffeeCo - Coffee" ELSE "Purchase - Amazon - Headphones"]

\* a TransactionData dump: every field of the schema is present
Tx(m, th, v, raw) ==
    [email_id |-> m,
     thread_id |-> th,
     from_email |-> Senders[v],
     subject |-> "Your receipt",
     transaction_date |-> TxDates[v],
     amount |-> 12 * v,
     description |-> Descriptions[v],
     raw_data |-> raw]

\* the dicts store_transaction is called with in SpecStore and SpecWriters:
\* complete ones, one that also carries a category, one that lacks the key amount
VariantThread == [v \in Variants |-> IF v = 1 THEN "t1" ELSE "t2"]
CompleteTxs == {Tx(m, VariantThread[v], v, JsonDumps(None)) : m \in MsgIds, v \in Variants}
CategoryTx == [Tx("m1", "t1", 1, JsonDumps(None)) EXCEPT !.from_email = "cat@c.example"] @@ [category |-> "food"]
LackingTx == [k \in StoreKeys \ {"amount"} |-> Tx("m1", "t1", 1, JsonDumps(None))[k]]
StoreArgs == CompleteTxs \cup {CategoryTx, LackingTx}

Writers == {"w1", "w2"}
NoWriter == "none"

(***************************************************************************)
(* The states in which a part of the program is not running.               *)
(***************************************************************************)
WritersIdle ==
    /\ wpc = [w \in Writers |-> "idle"]
    /\ wtx = [w \in Writers |-> None]
    /\ wseen = [w \in Writers |-> FALSE]
    /\ wrowcount = [w \in Writers |-> 0]
    /\ wret = [w \in Writers |-> FALSE]
    /\ werr = [w \in Writers |-> "none"]
    /\ wlock = NoWriter

LoopIdle ==
    /\ pc = "idle"
    /\ emails = <<>>
    /\ idx = 0
    /\ success = FALSE

\* outside a cycle head the window locals hold nothing
WindowIdle ==
    /\ start_time = None
    /\ end_time = None

\* no fetch_emails call is running
FetchIdle ==
    /\ fpc = "idle"
    /\ messages = <<>>
    /\ threads = <<>>
    /\ folded = <<>>
    /\ fresult = <<>>
    /\ files = {}

AnalyzerIdle ==
    /\ apc = "idle"
    /\ email = None
    /\ attempt = 0
    /\ classification = None
    /\ transaction = None
    /\ result = None
    /\ response = None
    /\ events = <<>>

(***************************************************************************)
(* SpecStore: store_transaction and clear_transactions called directly on  *)
(* the table init_db created.                                              *)
(***************************************************************************)
\* the record of one store_transaction call
CallRecord(t, dbOk, d) ==
    [t |-> t,
     ok |-> dbOk,
     ret |-> store_transaction(d, t, dbOk)[2],
     existed |-> IF "email_id" \in DOMAIN t THEN RowExists(d, t.email_id) ELSE FALSE,
     before |-> d]

\* hist keeps the last two calls made in a row; only the last keeps its table before
Remember(h, c) ==
    IF Len(h) = 0 THEN <<c>> ELSE <<[h[Len(h)] EXCEPT !.before = EmptyBag], c>>

StoreInit ==
    /\ db = EmptyBag
    /\ hist = <<>>
    /\ columns = TrackerColumns
    /\ MAX_RETRIES = 0
    /\ WindowIdle
    /\ FetchIdle
    /\ WritersIdle
    /\ LoopIdle
    /\ AnalyzerIdle

StoreTransactionCall(t, dbOk) ==
    /\ db' = store_transaction(db, t, dbOk)[1]
    /\ hist' = Remember(hist, CallRecord(t, dbOk, db))
    /\ UNCHANGED <<columns, writerVars, loopVars, analyzerVars, windowVars, fetchVars>>

ClearTransactionsCall(dbOk) ==
    /\ db' = clear_transactions(db, dbOk)
    /\ hist' = <<>>
    /\ UNCHANGED <<columns, writerVars, loopVars, analyzerVars, windowVars, fetchVars>>

StoreNext ==
    \/ \E t \in StoreArgs, dbOk \in BOOLEAN : StoreTransactionCall(t, dbOk)
    \/ \E dbOk \in BOOLEAN : ClearTransactionsCall(dbOk)

SpecStore == StoreInit /\ [][StoreNext]_vars

(***************************************************************************)
(* SpecWriters: two processes run the check-then-insert of the loop body   *)
(* against one database file.  A writer takes the file's write lock at     *)
(* execute and releases it at commit; a writer that finds the lock held    *)
(* waits for it, or gives up with "database is locked" (a sqlite3.Error).  *)
(***************************************************************************)
WritersInit ==
    /\ db = EmptyBag
    /\ hist = <<>>
    /\ columns = TrackerColumns
    /\ MAX_RETRIES = 0
    /\ wpc = [w \in Writers |-> "check"]
    /\ wtx \in [Writers -> CompleteTxs]
    /\ wseen = [w \in Writers |-> FALSE]
    /\ wrowcount = [w \in Writers |-> 0]
    /\ wret = [w \in Writers |-> FALSE]
    /\ werr = [w \in Writers |-> "none"]
    /\ wlock = NoWriter
    /\ WindowIdle
    /\ FetchIdle
    /\ LoopIdle
    /\ AnalyzerIdle

\* if email_already_processed(email['id']): continue
WriterCheck(w, dbOk) ==
    /\ wpc[w] = "check"
    /\ wseen' = [wseen EXCEPT ![w] = email_already_processed(db, wtx[w].email_id, dbOk)]
    /\ wpc' = [wpc EXCEPT ![w] = IF wseen'[w] THEN "skipped" ELSE "execute"]
    /\ werr' = [werr EXCEPT ![w] = IF dbOk THEN @ ELSE "fault"]
    /\ UNCHANGED <<db, hist, columns, wtx, wrowcount, wret, wlock, loopVars, analyzerVars, windowVars, fetchVars>>

\* cursor.execute(INSERT OR IGNORE ...) with the write lock free
WriterExecute(w, dbOk) ==
    /\ wpc[w] = "execute"
    /\ wlock = NoWriter
    /\ IF dbOk
       THEN /\ wrowcount' = [wrowcount EXCEPT ![w] = RowCount(db, RowOf(wtx[w]))]
            /\ wlock' = w
            /\ wpc' = [wpc EXCEPT ![w] = "commit"]
            /\ UNCHANGED <<wret, werr>>
       ELSE /\ wret' = [wret EXCEPT ![w] = FALSE]
            /\ werr' = [werr EXCEPT ![w] = "fault"]
            /\ wpc' = [wpc EXCEPT ![w] = "done"]
            /\ UNCHANGED <<wrowcount, wlock>>
    /\ UNCHANGED <<db, hist, columns, wtx, wseen, loopVars, analyzerVars, windowVars, fetchVars>>

\* cursor.execute with the lock held by the other writer until the busy timeout
WriterBusy(w) ==
    /\ wpc[w] = "execute"
    /\ wlock \notin {NoWriter, w}
    /\ wret' = [wret EXCEPT ![w] = FALSE]
    /\ werr' = [werr EXCEPT ![w] = "busy"]
    /\ wpc' = [wpc EXCEPT ![w] = "done"]
    /\ UNCHANGED <<db, hist, columns, wtx, wseen, wrowcount, wlock, loopVars, analyzerVars, windowVars, fetchVars>>

\* conn.commit() and the return on cursor.rowcount
WriterCommit(w) ==
    /\ wpc[w] = "commit"
    /\ db' = InsertOrIgnore(db, RowOf(wtx[w]))
    /\ wlock' = NoWriter
    /\ wret' = [wret EXCEPT ![w] = StoreReturn(wrowcount[w])]
    /\ wpc' = [wpc EXCEPT ![w] = "done"]
    /\ UNCHANGED <<hist, columns, wtx, wseen, wrowcount, werr, loopVars, analyzerVars, windowVars, fetchVars>>

WritersNext ==
    \/ \E w \in Writers, dbOk \in BOOLEAN : WriterCheck(w, dbOk)
    \/ \E w \in Writers, dbOk \in BOOLEAN : WriterExecute(w, dbOk)
    \/ \E w \in Writers : WriterBusy(w)
    \/ \E w \in Writers : WriterCommit(w)

SpecWriters == WritersInit /\ [][WritersNext]_vars

(***************************************************************************)
(* EmailAnalyzer (analyzer.py).                                            *)
(***************************************************************************)
REQUIRED_KEYS == {"id", "thread_id", "from_email", "to_email", "subject", "send_time", "page_content"}

\* the conversation fetch_emails returns for a thread whose first message is m
Email(m) ==
    [id |-> m,
     thread_id |-> ThreadOf(m),
     from_email |-> "shop@a.example",
     to_email |-> "me@x.example",
     subject |-> "Your receipt",
     send_time |-> "2024-01-01T10:00:00",
     page_content |-> "Your payment of $12.00 to CoffeeCo",
     is_read |-> FALSE,
     attachments |-> <<>>]

\* only the id is looked for
validate_email_OnlyId(e) == {"id"} \ DOMAIN e

\* _validate_email: the missing keys
validate_email(e) == REQUIRED_KEYS \ DOMAIN e

\* what one agent.run call can do: return content of the schema ("ok"), return no
\* response or no content ("empty"), return content that is no instance of the
\* schema ("wrongtype"), raise pydantic's ValidationError, raise another Exception
FailureKinds == {"empty", "wrongtype", "ValidationError", "Exception"}
ExceptionKinds == {"ValidationError", "Exception"}

\* confidence in tenths: ge=0.0, le=1.0
Confidences == {0, 5, 10}
Classifications ==
    {[is_transactional |-> b, confidence |-> c, reasoning |-> "because"] :
        b \in BOOLEAN, c \in Confidences}
ClassifierOutcomes ==
    {[kind |-> "ok", content |-> c] : c \in Classifications}
        \cup {[kind |-> k, content |-> None] : k \in FailureKinds}

\* the extractor's own ids and raw_data are whatever it likes: right or wrong,
\* together or apart
OracleIds == {"m1", "m3"}
OracleRaw == [v \in Variants |-> IF v = 1 THEN JsonDumps(None) ELSE JsonDumps(Email("m1"))]
OracleTransactions ==
    {Tx(m, th, v, OracleRaw[v]) : m \in OracleIds, th \in ThreadIds, v \in Variants}
ExtractorOutcomes ==
    {[kind |-> "ok", content |-> t] : t \in OracleTransactions}
        \cup {[kind |-> k, content |-> None] : k \in FailureKinds}

\* only except ValidationError is left
Caught_OnlyValidation(kind) == kind = "ValidationError"

\* except ValidationError / except Exception around agent.run
Caught(kind) == kind \in {"ValidationError", "Exception"}

\* the retry test off by one: the stage gives up one attempt early
classify_outcome_GiveUpEarly(kind, att, max) ==
    IF kind = "ok" THEN "value"
    ELSE IF kind \in {"empty", "wrongtype"} THEN "none"
    ELSE IF ~ Caught(kind) THEN "raise"
    ELSE IF att < max - 2 THEN "sleep" ELSE "none"

\* an exception answered with None at once, the loop left
extract_outcome_NoRetry(kind, att, max) ==
    IF kind = "ok" THEN "value"
    ELSE IF kind \in {"empty", "wrongtype"} THEN "none"
    ELSE IF ~ Caught(kind) THEN "raise"
    ELSE "none"

\* an empty or wrong-typed response retried like an exception
classify_outcome_RetryAlways(kind, att, max) ==
    IF kind = "ok" THEN "value"
    ELSE IF kind \notin {"empty", "wrongtype"} /\ ~ Caught(kind) THEN "raise"
    ELSE IF att < max - 1 THEN "sleep" ELSE "none"

\* the body of _classify_email's loop after agent.run: return the value, return
\* None, sleep and go round again, or let the exception out
classify_outcome(kind, att, max) ==
    IF kind = "ok" THEN "value"
    ELSE IF kind \in {"empty", "wrongtype"} THEN "none"
    ELSE IF ~ Caught(kind) THEN "raise"
    ELSE IF att < max - 1 THEN "sleep" ELSE "none"

\* the body of _extract_transaction's loop after agent.run
extract_outcome(kind, att, max) ==
    IF kind = "ok" THEN "value"
    ELSE IF kind \in {"empty", "wrongtype"} THEN "none"
    ELSE IF ~ Caught(kind) THEN "raise"
    ELSE IF att < max - 1 THEN "sleep" ELSE "none"

\* the update that forgets the ids
update_transaction_KeepOracleIds(t, e) == [t EXCEPT !.raw_data = JsonDumps(e)]

\* transaction.update({"email_id": ..., "thread_id": ..., "raw_data": ...})
update_transaction(t, e) ==
    [t EXCEPT !.email_id = e.id, !.thread_id = e.thread_id, !.raw_data = JsonDumps(e)]

\* the gate on a confidence threshold as well
gate_open_Threshold(c) == c # None /\ c.is_transactional /\ c.confidence >= 5

\* analyze_email goes on to extraction: not (not classification or not is_transactional)
gate_open(c) == c # None /\ c.is_transactional

\* analyze_email(e) is called
CallAnalyze(e) ==
    /\ email' = e
    /\ apc' = "validate"
    /\ attempt' = 0
    /\ classification' = None
    /\ transaction' = None
    /\ result' = None
    /\ response' = None
    /\ events' = <<>>
    /\ UNCHANGED MAX_RETRIES

\* an agent.run call of a stage, with what it did
\* a delay that grows with the attempt number
retry_sleep_Backoff(att) == RETRY_DELAY * (att + 2)

\* time.sleep(Config.RETRY_DELAY): the seconds slept after attempt att
retry_sleep(att) == RETRY_DELAY

RunEvent(stage, kind) == [stage |-> stage, event |-> "run", kind |-> kind, secs |-> 0]

\* a time.sleep call of a stage
SleepEvent(stage, secs) == [stage |-> stage, event |-> "sleep", kind |-> "", secs |-> secs]

\* response after agent.run: a raise leaves the local as it was
Assigned(old, o) == IF o.kind \in ExceptionKinds THEN old ELSE o

\* if cls._validate_email(email): return None; then _classify_email is entered
Validate ==
    /\ apc = "validate"
    /\ IF validate_email(email) # {}
       THEN /\ result' = None
            /\ apc' = "returned"
       ELSE /\ apc' = "classify"
            /\ UNCHANGED result
    /\ attempt' = 0
    /\ UNCHANGED <<MAX_RETRIES, email, classification, transaction, response, events>>
    /\ UNCHANGED <<storeVars, writerVars, loopVars, windowVars, fetchVars>>

\* one round of _classify_email's loop: classifier_agent.run and what follows;
\* with range(MAX_RETRIES) used up, the return None after the loop
ClassifyAttempt(o) ==
    /\ apc = "classify"
    /\ IF attempt < MAX_RETRIES
       THEN LET next == classify_outcome(o.kind, attempt, MAX_RETRIES)
            IN  /\ events' = Append(events, RunEvent("classify", o.kind))
                /\ response' = Assigned(response, o)
                /\ apc' = CASE next = "sleep" -> "classify_sleep"
                            [] next = "raise" -> "raised"
                            [] OTHER -> "gate"
                /\ classification' = IF next = "value" THEN o.content ELSE None
       ELSE /\ classification' = None
            /\ apc' = "gate"
            /\ UNCHANGED <<response, events>>
    /\ UNCHANGED <<MAX_RETRIES, email, attempt, transaction, result>>
    /\ UNCHANGED <<storeVars, writerVars, loopVars, windowVars, fetchVars>>

\* time.sleep(Config.RETRY_DELAY) in _classify_email, then the next round
ClassifySleep ==
    /\ apc = "classify_sleep"
    /\ events' = Append(events, SleepEvent("classify", retry_sleep(attempt)))
    /\ attempt' = attempt + 1
    /\ apc' = "classify"
    /\ UNCHANGED <<MAX_RETRIES, email, classification, transaction, result, response>>
    /\ UNCHANGED <<storeVars, writerVars, loopVars, windowVars, fetchVars>>

\* analyze_email after _classify_email returned
Gate ==
    /\ apc = "gate"
    /\ IF gate_open(classification)
       THEN /\ apc' = "extract"
            /\ UNCHANGED result
       ELSE /\ result' = None
            /\ apc' = "returned"
    /\ attempt' = 0
    /\ response' = None
    /\ UNCHANGED <<MAX_RETRIES, email, classification, transaction, events>>
    /\ UNCHANGED <<storeVars, writerVars, loopVars, windowVars, fetchVars>>

\* one round of _extract_transaction's loop: extractor_agent.run and what follows;
\* with range(MAX_RETRIES) used up, the return None after the loop
ExtractAttempt(o) ==
    /\ apc = "extract"
    /\ IF attempt < MAX_RETRIES
       THEN LET next == extract_outcome(o.kind, attempt, MAX_RETRIES)
            IN  /\ events' = Append(events, RunEvent("extract", o.kind))
                /\ response' = Assigned(response, o)
                /\ apc' = CASE next = "sleep" -> "extract_sleep"
                            [] next = "raise" -> "raised"
                            [] OTHER -> "extracted"
                /\ transaction' = IF next = "value" THEN update_transaction(o.content, email) ELSE None
       ELSE /\ transaction' = None
            /\ apc' = "extracted"
            /\ UNCHANGED <<response, events>>
    /\ UNCHANGED <<MAX_RETRIES, email, attempt, classification, result>>
    /\ UNCHANGED <<storeVars, writerVars, loopVars, windowVars, fetchVars>>

\* time.sleep(Config.RETRY_DELAY) in _extract_transaction, then the next round
ExtractSleep ==
    /\ apc = "extract_sleep"
    /\ events' = Append(events, SleepEvent("extract", retry_sleep(attempt)))
    /\ attempt' = attempt + 1
    /\ apc' = "extract"
    /\ UNCHANGED <<MAX_RETRIES, email, classification, transaction, result, response>>
    /\ UNCHANGED <<storeVars, writerVars, loopVars, windowVars, fetchVars>>

\* analyze_email after _extract_transaction returned: the transaction, or None
Finish ==
    /\ apc = "extracted"
    /\ result' = transaction
    /\ response' = None
    /\ apc' = "returned"
    /\ UNCHANGED <<MAX_RETRIES, email, attempt, classification, transaction, events>>
    /\ UNCHANGED <<storeVars, writerVars, loopVars, windowVars, fetchVars>>

AnalyzerNext ==
    \/ Validate
    \/ \E o \in ClassifierOutcomes : ClassifyAttempt(o)
    \/ ClassifySleep
    \/ Gate
    \/ \E o \in ExtractorOutcomes : ExtractAttempt(o)
    \/ ExtractSleep
    \/ Finish

(***************************************************************************)
(* SpecAnalyze: analyze_email called on its own, once per behaviour.       *)
(***************************************************************************)
\* a dict without the keys ks
Lacking(e, ks) == [k \in DOMAIN e \ ks |-> e[k]]

\* analyze_email takes any dict: the conversations of fetch_emails, which have
\* every key, and dicts of other callers that lack some
AnalyzeArgs ==
    {Email(m) : m \in MsgIds}
        \cup {Lacking(Email("m1"), {k}) : k \in REQUIRED_KEYS \cup {"attachments"}}
        \cup {Lacking(Email("m3"), {"to_email", "send_time"})}

AnalyzeInit ==
    /\ db = EmptyBag
    /\ hist = <<>>
    /\ columns = TrackerColumns
    /\ MAX_RETRIES \in 0..MaxRetriesCfg
    /\ WindowIdle
    /\ FetchIdle
    /\ WritersIdle
    /\ LoopIdle
    /\ apc = "validate"
    /\ email \in AnalyzeArgs
    /\ attempt = 0
    /\ classification = None
    /\ transaction = None
    /\ result = None
    /\ response = None
    /\ events = <<>>

SpecAnalyze == AnalyzeInit /\ [][AnalyzerNext]_vars

(***************************************************************************)
(* Spec: run_finance_tracker (main.py).                                    *)
(***************************************************************************)
\* what one fetch_emails call can return: one conversation per thread
FetchedIds ==
    {f \in UNION {[1..n -> MsgIds] : n \in 0..MaxFetch} :
        \A i, j \in DOMAIN f : i # j => ThreadOf(f[i]) # ThreadOf(f[j])}

EmailsOf(ms) == [i \in DOMAIN ms |-> Email(ms[i])]

FetchResults == {EmailsOf(ms) : ms \in FetchedIds}

Init ==
    /\ db = EmptyBag
    /\ hist = <<>>
    /\ columns = NoTable
    /\ MAX_RETRIES \in 0..MaxRetriesLoop
    /\ WindowIdle
    /\ FetchIdle
    /\ WritersIdle
    /\ pc = "startup"
    /\ emails = <<>>
    /\ idx = 0
    /\ success = FALSE
    /\ AnalyzerIdle

\* the locals of a finished analyze_email call are gone
AnalyzerReset ==
    /\ apc' = "idle"
    /\ email' = None
    /\ attempt' = 0
    /\ classification' = None
    /\ transaction' = None
    /\ result' = None
    /\ response' = None
    /\ events' = <<>>
    /\ UNCHANGED MAX_RETRIES

\* init_db() and GmailClient(), before the loop and outside its try; when one
\* of the two raises, the table is there if it was init_db that returned
Startup(ok) ==
    /\ pc = "startup"
    /\ pc' = IF ok THEN "begin_cycle" ELSE "terminated"
    /\ columns' \in (IF ok THEN {init_db(columns)} ELSE {columns, init_db(columns)})
    /\ UNCHANGED <<emails, idx, success, db, hist, writerVars, analyzerVars, windowVars, fetchVars>>

\* a loop that handles the first conversation only
Advance_Break(i, es) == "sleep_poll"

\* the for loop's step to the next conversation, or to the sleep after the last
Advance(i, es) == IF i < Len(es) THEN "check" ELSE "sleep_poll"

\* an exception leaves run_finance_tracker
except_Exception_Propagates == "terminated"

\* the loop is left after a sleep
while_True_Once == "terminated"

\* while True: after either sleep the next cycle begins
while_True == "begin_cycle"

\* where an exception raised inside the try goes: except Exception, then
\* time.sleep(RETRY_DELAY)
except_Exception == "sleep_retry"

\* datetime.now() at the head of a cycle, in minutes since 2024-01-01T00:00
Times == {1900, 3000}

\* the window start with the overlap taken off in every case
window_start_AlwaysOverlap(last, endt) ==
    IF last # None
    THEN Datetime(last.minutes - OVERLAP)
    ELSE Datetime(endt.minutes - LOOKBACK - OVERLAP)

\* start_time = last or (end_time - 24 h); if last: start_time -= 10 min
window_start(last, endt) ==
    IF last # None
    THEN Datetime(last.minutes - OVERLAP)
    ELSE Datetime(endt.minutes - LOOKBACK)

\* the head of a cycle: end_time, get_last_processed_time(), start_time; the
\* clock does not go back, and end_time is bound to the last cycle's reading
\* until this assignment
BeginCycle(now, dbOk) ==
    /\ pc = "begin_cycle"
    /\ IF end_time = None THEN TRUE ELSE now >= end_time.minutes
    /\ end_time' = Datetime(now)
    /\ start_time' = window_start(get_last_processed_time(db, dbOk), Datetime(now))
    /\ pc' = "fetch"
    /\ UNCHANGED <<emails, idx, success, storeVars, writerVars, analyzerVars, fetchVars>>

\* client.fetch_emails(start_time, end_time) returns, or raises into the except;
\* start_time is not read again in the cycle
Fetch(fetchOk, fetched) ==
    /\ pc = "fetch"
    /\ IF fetchOk
       THEN /\ emails' = fetched
            /\ idx' = 1
            /\ pc' = IF fetched = <<>> THEN "sleep_poll" ELSE "check"
       ELSE /\ pc' = except_Exception
            /\ UNCHANGED <<emails, idx>>
    /\ start_time' = None
    /\ UNCHANGED end_time
    /\ UNCHANGED <<success, storeVars, writerVars, analyzerVars, fetchVars>>

\* if email_already_processed(email['id']): continue; else analyze_email(email)
CheckProcessed(dbOk) ==
    /\ pc = "check"
    /\ success' = FALSE
    /\ IF email_already_processed(db, emails[idx].id, dbOk)
       THEN /\ pc' = Advance(idx, emails)
            /\ idx' = idx + 1
            /\ AnalyzerReset
       ELSE /\ pc' = "analyzing"
            /\ CallAnalyze(emails[idx])
            /\ UNCHANGED idx
    /\ UNCHANGED <<emails, storeVars, writerVars, windowVars, fetchVars>>

\* analyze_email returned (or raised): if transaction: store it, else next
AfterAnalyze ==
    /\ pc = "analyzing"
    /\ apc \in {"returned", "raised"}
    /\ IF apc = "raised"
       THEN /\ pc' = except_Exception
            /\ AnalyzerReset
            /\ UNCHANGED idx
       ELSE IF result # None
       THEN /\ pc' = "store"
            /\ UNCHANGED <<idx, analyzerVars>>
       ELSE /\ pc' = Advance(idx, emails)
            /\ idx' = idx + 1
            /\ AnalyzerReset
    /\ UNCHANGED <<emails, success, storeVars, writerVars, windowVars, fetchVars>>

\* success = store_transaction(transaction)
Store(dbOk) ==
    /\ pc = "store"
    /\ db' = store_transaction(db, result, dbOk)[1]
    /\ success' = store_transaction(db, result, dbOk)[2]
    /\ pc' = Advance(idx, emails)
    /\ idx' = idx + 1
    /\ AnalyzerReset
    /\ UNCHANGED <<hist, columns, emails, writerVars, windowVars, fetchVars>>

\* time.sleep(POLLING_INTERVAL) at the end of the try; then the next cycle
SleepPoll ==
    /\ pc = "sleep_poll"
    /\ pc' = while_True
    /\ emails' = <<>>
    /\ idx' = 0
    /\ success' = FALSE
    /\ AnalyzerReset
    /\ UNCHANGED <<storeVars, writerVars, windowVars, fetchVars>>

\* except Exception: time.sleep(RETRY_DELAY); then the next cycle
SleepRetry ==
    /\ pc = "sleep_retry"
    /\ pc' = while_True
    /\ emails' = <<>>
    /\ idx' = 0
    /\ success' = FALSE
    /\ AnalyzerReset
    /\ UNCHANGED <<storeVars, writerVars, windowVars, fetchVars>>

\* the seconds the loop sleeps at a position
SleepSeconds(p) == IF p = "sleep_poll" THEN POLLING_INTERVAL ELSE RETRY_DELAY

Next ==
    \/ \E ok \in BOOLEAN : Startup(ok)
    \/ \E now \in Times, dbOk \in BOOLEAN : BeginCycle(now, dbOk)
    \/ \E fetchOk \in BOOLEAN, fetched \in FetchResults : Fetch(fetchOk, fetched)
    \/ \E dbOk \in BOOLEAN : CheckProcessed(dbOk)
    \/ AnalyzerNext
    \/ AfterAnalyze
    \/ \E dbOk \in BOOLEAN : Store(dbOk)
    \/ SleepPoll
    \/ SleepRetry

Spec == Init /\ [][Next]_vars

(***************************************************************************)
(* FairSpec: the same loop with progress assumed: every call the loop      *)
(* makes returns or raises (agent.run, the Gmail and SQLite calls) and     *)
(* every time.sleep ends.  What the agents answer matters here only as far *)
(* as it steers the loop: one answer of each kind.                         *)
(***************************************************************************)
LoopClassifierOutcomes ==
    {o \in ClassifierOutcomes :
        \/ o.kind \in {"empty", "Exception"}
        \/ (o.kind = "ok" /\ o.content.confidence = 10)}

LoopExtractorOutcomes ==
    {o \in ExtractorOutcomes :
        \/ o.kind \in {"empty", "Exception"}
        \/ (o.kind = "ok" /\ o.content.email_id = "m1" /\ o.content.thread_id = "t1")}

LoopNext ==
    \/ \E ok \in BOOLEAN : Startup(ok)
    \/ \E now \in Times, dbOk \in BOOLEAN : BeginCycle(now, dbOk)
    \/ \E fetchOk \in BOOLEAN, fetched \in FetchResults : Fetch(fetchOk, fetched)
    \/ \E dbOk \in BOOLEAN : CheckProcessed(dbOk)
    \/ Validate
    \/ \E o \in LoopClassifierOutcomes : ClassifyAttempt(o)
    \/ ClassifySleep
    \/ Gate
    \/ \E o \in LoopExtractorOutcomes : ExtractAttempt(o)
    \/ ExtractSleep
    \/ Finish
    \/ AfterAnalyze
    \/ \E dbOk \in BOOLEAN : Store(dbOk)
    \/ SleepPoll
    \/ SleepRetry

FairSpec == Init /\ [][LoopNext]_vars /\ WF_vars(LoopNext)

(***************************************************************************)
(* SpecWindow: the cycle head over tables with dates of every kind, the    *)
(* mailbox being empty.                                                    *)
(***************************************************************************)
\* one stored transaction per date text, each from a message of its own
DatedIds == <<"d1", "d2", "d3", "d4", "d5">>
DatedRow(i) ==
    RowOf([Tx("m1", "t1", 1, JsonDumps(None)) EXCEPT
              !.email_id = DatedIds[i],
              !.transaction_date = DateTexts[i]])

WindowTables == {SetToBag({DatedRow(i) : i \in I}) : I \in SUBSET DOMAIN DateTexts}

WindowInit ==
    /\ db \in WindowTables
    /\ hist = <<>>
    /\ columns = TrackerColumns
    /\ MAX_RETRIES = 3
    /\ WritersIdle
    /\ pc = "begin_cycle"
    /\ emails = <<>>
    /\ idx = 0
    /\ success = FALSE
    /\ AnalyzerIdle
    /\ WindowIdle
    /\ FetchIdle

WindowNext ==
    \/ \E now \in Times, dbOk \in BOOLEAN : BeginCycle(now, dbOk)
    \/ \E fetchOk \in BOOLEAN : Fetch(fetchOk, <<>>)
    \/ SleepPoll
    \/ SleepRetry

SpecWindow == WindowInit /\ [][WindowNext]_vars

(***************************************************************************)
(* SpecFetch: GmailClient.fetch_emails (tools.py) after the listing: the   *)
(* loop that gets each listed message and folds it into the Conversation   *)
(* of its thread, and the filter on email_type at the end.                 *)
(*                                                                         *)
(* A text that lists addresses (a From, Reply-To or To header value, a     *)
(* Conversation's from_email and to_email) is the sequence of the pieces   *)
(* that ", " separates in it: "x, y" is <<"x", "y">>, "x" is <<"x">> and   *)
(* the empty text is <<"">>.  str.split(", ") gives the pieces, each a     *)
(* text of its own, and ", ".join concatenates.                            *)
(***************************************************************************)
EmptyText == <<"">>

\* a parsed Date header: an instant in minutes, with or without a UTC offset
Aware(n) == [minutes |-> n, aware |-> TRUE]
Naive(n) == [minutes |-> n, aware |-> FALSE]
\* a Date header that dateutil's parser.parse rejects
Unparsable == [unparsable |-> TRUE]

\* the messages of the mailbox, as users().messages().get returns them when
\* nothing is wrong; parts are the parts of the payload that have a filename;
\* the UNREAD label is drawn when the message is got
Mailbox ==
    {[id |-> "a1", threadId |-> "t1", Subject |-> "Order", From |-> <<"shop@a">>,
      ReplyTo |-> EmptyText, To |-> <<"me@x", "you@y">>, Date |-> Aware(10),
      body |-> "a1 text", parts |-> <<>>],
     [id |-> "a2", threadId |-> "t1", Subject |-> "Re: Order", From |-> <<"noreply@a">>,
      ReplyTo |-> <<"shop@a">>, To |-> <<"you@y", "acct@z">>, Date |-> Aware(30),
      body |-> "a2 text", parts |-> <<>>],
     [id |-> "a3", threadId |-> "t1", Subject |-> "Re: Order", From |-> <<"me@x">>,
      ReplyTo |-> EmptyText, To |-> <<"shop@a">>, Date |-> Naive(20),
      body |-> "a3 text", parts |-> <<>>],
     [id |-> "a4", threadId |-> "t1", Subject |-> "Fwd: Order", From |-> <<"me@x">>,
      ReplyTo |-> EmptyText, To |-> <<"acct@z">>, Date |-> Unparsable,
      body |-> "a4 text", parts |-> <<>>],
     [id |-> "a5", threadId |-> "t1", Subject |-> "Re: Order", From |-> <<"shop@a">>,
      ReplyTo |-> EmptyText, To |-> <<"me@x">>, Date |-> Aware(40),
      body |-> "", parts |-> <<>>],
     [id |-> "b1", threadId |-> "t2", Subject |-> "Invoice", From |-> <<"bank@b">>,
      ReplyTo |-> EmptyText, To |-> <<"me@x">>, Date |-> Aware(20),
      body |-> "b1 text", parts |-> <<>>]}

\* at most MaxMsgs messages are listed by one fetch
MaxMsgs == 3

\* a thread whose messages carry attachments, one of them the same part twice
PartsMailbox ==
    {[id |-> "c1", threadId |-> "t3", Subject |-> "Receipt", From |-> <<"shop@a">>,
      ReplyTo |-> EmptyText, To |-> <<"me@x">>, Date |-> Aware(10), body |-> "c1 text",
      parts |-> <<[filename |-> "bill.pdf", attachmentId |-> "att1"],
                  [filename |-> "bill.pdf", attachmentId |-> "att1"]>>],
     [id |-> "c2", threadId |-> "t3", Subject |-> "Re: Receipt", From |-> <<"shop@a">>,
      ReplyTo |-> EmptyText, To |-> <<"me@x">>, Date |-> Aware(20), body |-> "c2 text",
      parts |-> <<[filename |-> "note.txt", attachmentId |-> "att2"]>>],
     [id |-> "c3", threadId |-> "t3", Subject |-> "Re: Receipt", From |-> <<"me@x">>,
      ReplyTo |-> EmptyText, To |-> <<"shop@a">>, Date |-> Unparsable, body |-> "c3 text",
      parts |-> <<>>],
     [id |-> "d1", threadId |-> "t4", Subject |-> "Statement", From |-> <<"bank@b">>,
      ReplyTo |-> EmptyText, To |-> <<"me@x">>, Date |-> Aware(30), body |-> "d1 text",
      parts |-> <<>>]}

\* what the listing of a mailbox can be: distinct messages in any order
ListingsOf(box) ==
    {l \in UNION {[1..n -> box] : n \in 0..MaxMsgs} :
        \A i, j \in DOMAIN l : i # j => l[i] # l[j]}

Listings == ListingsOf(Mailbox)

\* from_email after the Reply-To substitution
Sender(msg) == IF msg.ReplyTo # EmptyText THEN msg.ReplyTo ELSE msg.From

\* the extracted body as it is, empty or not
BodyOf_Raw(msg) == msg.body

\* body = self._extract_message_part(payload) or "No message body available."
BodyOf(msg) == IF msg.body = "" THEN "No message body available." ELSE msg.body

\* parsed_time.isoformat(), and parser.parse of it, which gives the datetime back
Isoformat(dt) == [iso |-> dt]
ParseIso(text) == text.iso

\* a > b on datetimes: TypeError when one has an offset and the other has none
Comparable(a, b) == a.aware = b.aware

\* the later of the two is kept even when the new one is not later
later_time_KeepNew(old, new) == Isoformat(new)

\* if parsed_time > parser.parse(existing["send_time"]): send_time = parsed_time.isoformat()
later_time(old, new) == IF new.minutes > ParseIso(old).minutes THEN Isoformat(new) ELSE old

\* the flag of the latest message alone
fold_is_read_Last(old, isRead) == isRead

\* existing_email["is_read"] and is_read
fold_is_read(old, isRead) == old /\ isRead

\* text.split(", "): its pieces, each a text
Split(text) == {<<text[i]>> : i \in DOMAIN text}

\* set(existing.split(", ") + [value])
AddressSet(existing, value) == Split(existing) \cup {value}

\* the orders in which a set can be iterated
Orderings(S) ==
    {f \in [1..Cardinality(S) -> S] : \A i, j \in DOMAIN f : i # j => f[i] # f[j]}

\* ", ".join(texts)
RECURSIVE Join(_)
Join(texts) == IF texts = <<>> THEN <<>> ELSE Head(texts) \o Join(Tail(texts))

\* for attachment in attachments: if attachment not in existing: append
RECURSIVE MergeAttachments(_, _)
MergeAttachments(existing, new) ==
    IF new = <<>> THEN existing
    ELSE MergeAttachments(
             IF \E i \in DOMAIN existing : existing[i] = Head(new)
             THEN existing ELSE Append(existing, Head(new)),
             Tail(new))

\* what users().messages().get can do: answer, raise HttpError, or answer
\* with a message that lacks a key the code indexes
GetOutcomes == {"ok", "HttpError", "no threadId", "no payload"}

PayloadKeys == {"Subject", "From", "ReplyTo", "To", "Date", "body", "parts"}

\* msg = ...get(userId="me", id=message["id"]).execute()
Response(listed, get) ==
    IF get = "no threadId" THEN [k \in DOMAIN listed \ {"threadId"} |-> listed[k]]
    ELSE IF get = "no payload" THEN [k \in DOMAIN listed \ PayloadKeys |-> listed[k]]
    ELSE listed

\* the try body raises before the attachments are looked at: the get itself,
\* msg["threadId"], msg["payload"], _parse_time
RaisesEarly(get, msg) ==
    \/ get = "HttpError"
    \/ "threadId" \notin DOMAIN msg
    \/ PayloadKeys \cap DOMAIN msg = {}
    \/ msg.Date = Unparsable

\* what the get of an attachment can do: give the data, raise HttpError, or
\* fail otherwise (the connection drops, the answer has no "data", the data
\* is not base64)
DownloadOutcomes == {"data", "HttpError", "Exception"}

\* the downloads a message can meet, one per part
DownloadsFor(ms) ==
    IF ms = <<>> THEN {<<>>} ELSE [DOMAIN Head(ms).parts -> DownloadOutcomes]

\* _download_attachment: the data, None on HttpError, anything else escapes
download_attachment(outcome) ==
    IF outcome = "data" THEN "data"
    ELSE IF outcome = "HttpError" THEN "None"
    ELSE "raised"

\* the parts before which no download has raised: those the for loop reaches
ReachedParts(dl) ==
    {i \in DOMAIN dl : \A h \in 1..(i - 1) : download_attachment(dl[h]) # "raised"}

DownloadRaises(dl) == \E i \in DOMAIN dl : download_attachment(dl[i]) = "raised"

\* attachment = {"filename": part["filename"], "id": part["body"]["attachmentId"]}
Descriptor(part) == [filename |-> part.filename, id |-> part.attachmentId]

\* attachments, when the for loop over the parts has ended
AttachmentsOf(msg) == [i \in DOMAIN msg.parts |-> Descriptor(msg.parts[i])]

\* the files written: attachments_dir / f"{msg['id']}_{attachment['filename']}"
WrittenFiles(msg, dl) ==
    {<<msg.id, msg.parts[i].filename>> :
        i \in {h \in ReachedParts(dl) : download_attachment(dl[h]) = "data"}}

\* the downloads that were asked for
Asked(get, msg, dl) ==
    IF RaisesEarly(get, msg) THEN <<>>
    ELSE [i \in ReachedParts(dl) |-> dl[i]]

\* the dict is keyed on the message id
ThreadKey_MessageId(msg) == msg.id

\* threads[thread_id]: the key of the dict
ThreadKey(msg) == msg.threadId

\* the position in threads of the entry with key k, if any
Entry(ths, k) == {i \in DOMAIN ths : ths[i].key = k}

\* "\n\n--- New Message in Thread ---\n\n"
Separator == "\n\n--- New Message in Thread ---\n\n"

\* threads[thread_id] = EmailData(...)
NewConversation(msg, isRead) ==
    [id |-> msg.id,
     thread_id |-> msg.threadId,
     from_email |-> Sender(msg),
     to_email |-> msg.To,
     subject |-> msg.Subject,
     page_content |-> <<BodyOf(msg)>>,
     send_time |-> Isoformat(msg.Date),
     is_read |-> isRead,
     attachments |-> AttachmentsOf(msg)]

\* a merge that takes the identity of the message merged
MergeHead_Reseed(c, msg, isRead) ==
    [c EXCEPT !.page_content = @ \o <<Separator, BodyOf(msg)>>,
              !.attachments = MergeAttachments(@, AttachmentsOf(msg)),
              !.is_read = fold_is_read(@, isRead),
              !.id = msg.id,
              !.subject = msg.Subject]

\* the branch for a known thread up to the comparison of the times; a text
\* built with += is the sequence of the texts added
MergeHead(c, msg, isRead) ==
    [c EXCEPT !.page_content = @ \o <<Separator, BodyOf(msg)>>,
              !.attachments = MergeAttachments(@, AttachmentsOf(msg)),
              !.is_read = fold_is_read(@, isRead)]

\* the rest of the branch: send_time, from_email, to_email
MergeTail(c, msg, fromOrder, toOrder) ==
    [c EXCEPT !.send_time = later_time(@, msg.Date),
              !.from_email = Join(fromOrder),
              !.to_email = Join(toOrder)]

\* what became of a listed message: the answer to its get, its label, the
\* downloads asked for, the outcome
Folded(listed, get, unread, asked, outcome) ==
    [msg |-> listed, get |-> get, unread |-> unread, asked |-> asked, outcome |-> outcome]

\* the first failure ends the whole loop
except_message_Abort == "aborted"

\* except Exception as e: self.logger.error(...), and the for loop goes on
except_message == "folding"

\* one round of "for message in messages": the get, the parsing, the
\* attachments, the fold; any exception is logged and the loop goes on with
\* the next message
ProcessMessage(get, unread, dl) ==
    /\ fpc = "folding"
    /\ messages # <<>>
    /\ LET listed == Head(messages)
           msg == Response(listed, get)
           asked == Asked(get, msg, dl)
       IN  IF RaisesEarly(get, msg)
           THEN /\ folded' = Append(folded, Folded(listed, get, unread, asked, "failed"))
                /\ fpc' = except_message
                /\ UNCHANGED <<threads, files>>
           ELSE IF DownloadRaises(dl)
           THEN /\ folded' = Append(folded, Folded(listed, get, unread, asked, "failed"))
                /\ fpc' = except_message
                /\ files' = files \cup WrittenFiles(msg, dl)
                /\ UNCHANGED threads
           ELSE LET k == ThreadKey(msg)
                    at == Entry(threads, k)
                IN  /\ files' = files \cup WrittenFiles(msg, dl)
                    /\ IF at = {}
                       THEN /\ threads' = Append(threads,
                                              [key |-> k, email |-> NewConversation(msg, ~ unread)])
                            /\ folded' = Append(folded, Folded(listed, get, unread, asked, "created"))
                            /\ UNCHANGED fpc
                       ELSE LET i == CHOOSE j \in at : TRUE
                                c == MergeHead(threads[i].email, msg, ~ unread)
                            IN  IF ~ Comparable(msg.Date, ParseIso(c.send_time))
                                THEN /\ threads' = [threads EXCEPT ![i].email = c]
                                     /\ folded' = Append(folded,
                                                     Folded(listed, get, unread, asked, "partial"))
                                     /\ fpc' = except_message
                                ELSE \E fromOrder \in Orderings(AddressSet(c.from_email, Sender(msg))),
                                        toOrder \in Orderings(AddressSet(c.to_email, msg.To)) :
                                        /\ threads' = [threads EXCEPT
                                              ![i].email = MergeTail(c, msg, fromOrder, toOrder)]
                                        /\ folded' = Append(folded,
                                                        Folded(listed, get, unread, asked, "merged"))
                                        /\ UNCHANGED fpc
    /\ messages' = Tail(messages)
    /\ UNCHANGED fresult
    /\ UNCHANGED <<storeVars, writerVars, loopVars, analyzerVars, windowVars>>

EmailTypes == {"ALL", "READ", "UNREAD"}

\* result = [t for t in threads.values() if ...]; return result
ReturnResult(email_type) ==
    /\ fpc = "folding"
    /\ messages = <<>>
    /\ fresult' = SelectSeq([i \in DOMAIN threads |-> threads[i].email],
                            LAMBDA t : \/ email_type = "ALL"
                                       \/ (email_type = "READ" /\ t.is_read)
                                       \/ (email_type = "UNREAD" /\ ~ t.is_read))
    /\ fpc' = "returned"
    /\ UNCHANGED <<messages, threads, folded, files>>
    /\ UNCHANGED <<storeVars, writerVars, loopVars, analyzerVars, windowVars>>

FetchInit ==
    /\ db = EmptyBag
    /\ hist = <<>>
    /\ columns = TrackerColumns
    /\ MAX_RETRIES = 3
    /\ WritersIdle
    /\ LoopIdle
    /\ AnalyzerIdle
    /\ WindowIdle
    /\ fpc = "folding"
    /\ messages \in Listings
    /\ threads = <<>>
    /\ folded = <<>>
    /\ fresult = <<>>
    /\ files = {}

\* the gets answer well-formed messages or raise
FetchNext ==
    \/ \E get \in {"ok", "HttpError"}, unread \in BOOLEAN, dl \in DownloadsFor(messages) :
          ProcessMessage(get, unread, dl)
    \/ \E email_type \in EmailTypes : ReturnResult(email_type)

SpecFetch == FetchInit /\ [][FetchNext]_vars

(***************************************************************************)
(* SpecParts: fetch_emails on a mailbox with attachments, for every answer *)
(* of the gets and of the downloads.                                       *)
(***************************************************************************)
PartsInit ==
    /\ db = EmptyBag
    /\ hist = <<>>
    /\ columns = TrackerColumns
    /\ MAX_RETRIES = 3
    /\ WritersIdle
    /\ LoopIdle
    /\ AnalyzerIdle
    /\ WindowIdle
    /\ fpc = "folding"
    /\ messages \in ListingsOf(PartsMailbox)
    /\ threads = <<>>
    /\ folded = <<>>
    /\ fresult = <<>>
    /\ files = {}

PartsNext ==
    \/ \E get \in GetOutcomes, unread \in BOOLEAN, dl \in DownloadsFor(messages) :
          ProcessMessage(get, unread, dl)
    \/ \E email_type \in EmailTypes : ReturnResult(email_type)

SpecParts == PartsInit /\ [][PartsNext]_vars

(***************************************************************************)
(* SpecSchema: the tracker and the dashboard start on a database file that *)
(* holds no table yet, in either order.  Each runs its own init_db; the    *)
(* tracker, once started, calls store_transaction, and the dashboard can   *)
(* clear the table.                                                        *)
(***************************************************************************)
SchemaInit ==
    /\ db = EmptyBag
    /\ hist = <<>>
    /\ columns = NoTable
    /\ MAX_RETRIES = 0
    /\ WindowIdle
    /\ FetchIdle
    /\ WritersIdle
    /\ pc = "startup"
    /\ emails = <<>>
    /\ idx = 0
    /\ success = FALSE
    /\ AnalyzerIdle

\* streamlit_app.py runs init_db() each time the script runs; an exception is
\* shown and the script goes on
DashboardInitDb(dbOk) ==
    /\ columns' = IF dbOk THEN dashboard_init_db(columns) ELSE columns
    /\ UNCHANGED <<db, hist, writerVars, loopVars, analyzerVars, windowVars, fetchVars>>

\* the dashboard's clear button; DELETE raises when there is no table
DashboardClear(dbOk) ==
    /\ db' = clear_transactions(db, dbOk /\ columns # NoTable)
    /\ hist' = <<>>
    /\ UNCHANGED <<columns, writerVars, loopVars, analyzerVars, windowVars, fetchVars>>

\* a store_transaction of the running tracker on the table as it was created;
\* the call is recorded with dbOk, the absence of any other database fault
SchemaStoreCall(t, dbOk) ==
    /\ pc = "begin_cycle"
    /\ db' = store_transaction(db, t, dbOk /\ InsertPrepares(columns))[1]
    /\ hist' = Remember(hist, [CallRecord(t, dbOk /\ InsertPrepares(columns), db) EXCEPT !.ok = dbOk])
    /\ UNCHANGED <<columns, writerVars, loopVars, analyzerVars, windowVars, fetchVars>>

SchemaNext ==
    \/ \E ok \in BOOLEAN : Startup(ok)
    \/ \E dbOk \in BOOLEAN : DashboardInitDb(dbOk)
    \/ \E dbOk \in BOOLEAN : DashboardClear(dbOk)
    \/ \E t \in StoreArgs, dbOk \in BOOLEAN : SchemaStoreCall(t, dbOk)

SpecSchema == SchemaInit /\ [][SchemaNext]_vars

(***************************************************************************)
(* The store (SpecStore, SpecWriters).                                     *)
(***************************************************************************)
\* the last two calls of store_transaction were made in a row with the same
\* complete transaction, and both reached the database
TwiceInARow ==
    /\ Len(hist) = 2
    /\ hist[1].t = hist[2].t
    /\ StoreKeys \subseteq DOMAIN hist[2].t
    /\ hist[1].ok
    /\ hist[2].ok

\* C1: after store_transaction(t) is called twice in a row, on any table, the
\* table holds exactly one row whose email_id is t's; the first call returned
\* True if no such row was there before it, and the second returned False.
C1_Idempotence ==
    TwiceInARow =>
        /\ NumRowsFor(db, hist[2].t.email_id) = 1
        /\ (~ hist[1].existed => hist[1].ret)
        /\ ~ hist[2].ret

\* two calls in a row of a transaction that was new, on a table with another row
C1_Witness ==
    /\ TwiceInARow
    /\ ~ hist[1].existed
    /\ hist[1].ret
    /\ BagCardinality(db) >= 2

\* C2: a store_transaction call whose email_id already has a row leaves the
\* whole table as it was: that row's fields and every other row.
C2_NoOverwrite ==
    (Len(hist) >= 1 /\ hist[Len(hist)].existed) => db = hist[Len(hist)].before

\* a call that reached the database with values that differ from the stored
\* row of the same email_id, on a table with another row
C2_Witness ==
    /\ Len(hist) >= 1
    /\ hist[Len(hist)].ok
    /\ hist[Len(hist)].existed
    /\ StoreKeys \subseteq DOMAIN hist[Len(hist)].t
    /\ ~ BagIn(RowOf(hist[Len(hist)].t), db)
    /\ BagCardinality(db) >= 2

\* both writers ran to the end for the same email_id, each after seeing
\* email_already_processed answer False, and neither met a database fault
\* (waiting for the other's lock until the busy timeout is no fault)
BothAttempted(v, w) ==
    /\ v # w
    /\ wpc[v] = "done"
    /\ wpc[w] = "done"
    /\ wtx[v].email_id = wtx[w].email_id
    /\ ~ wseen[v]
    /\ ~ wseen[w]
    /\ werr[v] # "fault"
    /\ werr[w] # "fault"

\* C3: when two writers both saw email_already_processed(m) = False and both
\* called store_transaction for m, in any interleaving, the table ends with
\* exactly one row for m and exactly one of the two calls returned True.
C3_AtMostOnce ==
    \A v, w \in Writers :
        BothAttempted(v, w) =>
            /\ NumRowsFor(db, wtx[v].email_id) = 1
            /\ wret[v] # wret[w]

\* both writers went through execute and commit with different values for m
C3_Witness ==
    \E v, w \in Writers :
        /\ BothAttempted(v, w)
        /\ werr[v] = "none"
        /\ werr[w] = "none"
        /\ wtx[v] # wtx[w]

(***************************************************************************)
(* The analyzer's stages (SpecAnalyze).                                    *)
(***************************************************************************)
StageEvents(stage) == SelectSeq(events, LAMBDA e : e.stage = stage)
StageRuns(stage) == SelectSeq(events, LAMBDA e : e.stage = stage /\ e.event = "run")
LastOf(seq) == seq[Len(seq)]

\* the position at which a stage has just returned, and the positions inside it
DonePos(stage) == IF stage = "classify" THEN "gate" ELSE "extracted"
SleepPos(stage) == IF stage = "classify" THEN "classify_sleep" ELSE "extract_sleep"
Stages == {"classify", "extract"}

\* what the stage returned
Yield(stage) == IF stage = "classify" THEN classification ELSE transaction

\* every agent.run call of the stage raised
AllRaised(stage) == \A i \in DOMAIN StageRuns(stage) : StageRuns(stage)[i].kind \in ExceptionKinds

RaisedThenOk(stage) ==
    /\ Len(StageRuns(stage)) >= 2
    /\ StageRuns(stage)[1].kind \in ExceptionKinds
    /\ StageRuns(stage)[2].kind = "ok"

\* the fields of the dump that the update leaves alone
SameAnswer(t, content) ==
    /\ t # None
    /\ t.from_email = content.from_email
    /\ t.subject = content.subject
    /\ t.transaction_date = content.transaction_date
    /\ t.amount = content.amount
    /\ t.description = content.description

C9_NeverRaises ==
    /\ apc # "raised"
    /\ (apc = "gate" => classification = None \/ classification \in Classifications)
    /\ (apc = "extracted" => transaction = None \/ StoreKeys \subseteq DOMAIN transaction)
    /\ (apc = "returned" => result = None \/ (result = transaction /\ StoreKeys \subseteq DOMAIN result))
    /\ \A s \in Stages :
          (/\ apc \in {DonePos(s), "returned"}
           /\ Len(StageRuns(s)) = MAX_RETRIES
           /\ MAX_RETRIES >= 1
           /\ LastOf(StageRuns(s)).kind # "ok")
              => /\ Yield(s) = None
                 /\ (apc = "returned" => result = None)

\* analyze_email returned None after classification got through a
\* ValidationError and extraction used up MAX_RETRIES >= 2 attempts on raises
C9_Witness ==
    /\ apc = "returned"
    /\ result = None
    /\ MAX_RETRIES >= 2
    /\ Len(StageRuns("extract")) = MAX_RETRIES
    /\ LastOf(StageRuns("extract")).kind = "Exception"
    /\ StageRuns("classify")[1].kind = "ValidationError"

(***************************************************************************)
(* The poll loop with the analyzer inside it (Spec).                       *)
(***************************************************************************)
\* C4: once a row with email_id m is in the table, no later cycle invokes the
\* classification or the extraction agent for a conversation whose id is m.
C4_DedupBoundary ==
    (pc = "analyzing" /\ Len(events) >= 1) => ~ RowExists(db, email.id)

\* t carries the conversation's ids and its serialization
Authoritative(t, e) ==
    /\ t.email_id = e.id
    /\ t.thread_id = e.thread_id
    /\ t.raw_data = JsonDumps(e)

\* C5: whatever ids and raw_data the extraction agent returned, the transaction
\* that _extract_transaction returns, that analyze_email returns and that is
\* stored has the conversation's id and thread_id, and raw_data is
\* json.dumps of the conversation.
C5_AuthoritativeOverwrite ==
    /\ (apc = "extracted" /\ transaction # None) => Authoritative(transaction, email)
    /\ (apc = "returned" /\ result # None) => Authoritative(result, email)
    /\ (pc = "store") => (result # None /\ Authoritative(result, email))
    /\ success =>
          \E row \in BagToSet(db) :
              /\ row.email_id = emails[idx - 1].id
              /\ row.thread_id = emails[idx - 1].thread_id

\* the agent answered with another message id, another thread id and its own
\* raw_data, and the stage returned a transaction
C5_Witness ==
    /\ pc = "analyzing"
    /\ apc = "extracted"
    /\ transaction # None
    /\ response.kind = "ok"
    /\ response.content.email_id # email.id
    /\ response.content.thread_id # email.thread_id
    /\ response.content.raw_data # JsonDumps(email)

\* agent.run of the extraction agent has been called in this analyze_email
ExtractInvoked == Len(StageRuns("extract")) >= 1

\* C10: extraction is invoked exactly when classification returned a result
\* with is_transactional true, whatever its confidence; when classification
\* returned None or is_transactional false, analyze_email returns None and
\* nothing reaches store_transaction.
C10_ClassificationGate ==
    /\ (apc \in {"extract", "extract_sleep"}) =>
          (classification # None /\ classification.is_transactional)
    /\ (apc \in {"extracted", "returned"} /\ MAX_RETRIES >= 1) =>
          (ExtractInvoked <=> (classification # None /\ classification.is_transactional))
    /\ (apc = "returned" /\ ~ (classification # None /\ classification.is_transactional)) =>
          (~ ExtractInvoked /\ transaction = None /\ result = None)
    /\ (pc = "store") =>
          (classification # None /\ classification.is_transactional)

\* a transactional classification of confidence 0 led to an extracted
\* transaction that analyze_email returned
C10_Witness ==
    /\ pc = "analyzing"
    /\ apc = "returned"
    /\ classification # None
    /\ classification.is_transactional
    /\ classification.confidence = 0
    /\ ExtractInvoked
    /\ result # None

(***************************************************************************)
(* The poll window (SpecWindow).                                           *)
(***************************************************************************)
\* C11: in a cycle that finds at least one row in the table, the window start
\* is T minus 10 minutes, T being the largest transaction_date of the table,
\* and the window end is the time read at the head of the cycle.
C11_WindowOverlap ==
    (pc = "fetch" /\ BagToSet(db) # {}) =>
        /\ MaxDate(db) \in DOMAIN FromIsoformat
        /\ start_time = Datetime(FromIsoformat[MaxDate(db)].minutes - 10)
        /\ end_time \in {Datetime(now) : now \in Times}

\* C12: in a cycle that finds the table empty, the window start is the time
\* read at the head of the cycle minus 24 hours exactly, without the overlap,
\* and the window end is that time.
C12_DefaultLookback ==
    (pc = "fetch" /\ BagToSet(db) = {}) =>
        /\ end_time \in {Datetime(now) : now \in Times}
        /\ start_time = Datetime(end_time.minutes - 24 * 60)

\* the window of a cycle over an empty table, the later of the two clock readings
C12_Witness ==
    /\ pc = "fetch"
    /\ BagToSet(db) = {}
    /\ end_time = Datetime(3000)
    /\ start_time = Datetime(3000 - 24 * 60)

(***************************************************************************)
(* The supervisor loop (Spec, FairSpec).                                   *)
(***************************************************************************)
Sleeping == pc \in {"sleep_poll", "sleep_retry"}

\* C13: an exception that escapes a cycle takes the loop to the RETRY_DELAY
\* sleep, a cycle that ends without one to the POLLING_INTERVAL sleep with
\* every fetched conversation handled; each sleep is followed by a new cycle
\* and, every call returning, each cycle by a sleep: once in the loop, the
\* program never terminates.
C13_SupervisorLoop ==
    /\ [][/\ (pc = "startup" \/ pc' # "terminated")
          /\ (Sleeping /\ pc' # pc => pc' = "begin_cycle")
          /\ (pc' = "sleep_retry" /\ pc # "sleep_retry" =>
                 \/ pc = "fetch"
                 \/ (pc = "analyzing" /\ apc = "raised"))
          /\ (pc' = "sleep_poll" /\ pc # "sleep_poll" => idx' = Len(emails') + 1)
          /\ (pc = "analyzing" /\ apc = "raised" /\ pc' # pc => pc' = "sleep_retry")]_vars
    /\ (pc = "begin_cycle") ~> Sleeping
    /\ Sleeping ~> (pc = "begin_cycle")
    /\ [](pc = "sleep_retry" => SleepSeconds(pc) = 60)
    /\ [](pc = "sleep_poll" => SleepSeconds(pc) = 10800)

\* an exception escaped a cycle that came after a cycle which stored a row
C13_Witness == pc = "sleep_retry" /\ BagToSet(db) # {}

\* C14 as stated: whatever fails, init_db and GmailClient() before the first
\* cycle included, run_finance_tracker does not terminate.
C14_NeverTerminates == pc # "terminated"

\* C14 amended: run_finance_tracker terminates only out of its first two
\* statements, init_db() and GmailClient(); once the loop is entered no
\* failure of the store, the mail provider or an agent ends it.
C14_TerminatesOnlyAtStartup ==
    [][pc' = "terminated" => pc \in {"startup", "terminated"}]_vars

\* an agent raised during an analysis that came back with None, and the loop
\* is about to move on
C14_Witness ==
    /\ pc = "analyzing"
    /\ apc = "returned"
    /\ result = None
    /\ \E i \in DOMAIN events : events[i].kind = "Exception"

\* a database call of the step raised sqlite3.Error: the max-date query of a
\* table with a readable newest date gave no date, the existence check of a
\* stored id said no, or the insert of a complete new transaction left the
\* table as it was
DatabaseErrorStep ==
    \/ /\ pc = "begin_cycle"
       /\ pc' = "fetch"
       /\ get_last_processed_time(db, TRUE) # None
       /\ start_time' = Datetime(end_time'.minutes - LOOKBACK)
    \/ /\ pc = "check"
       /\ RowExists(db, emails[idx].id)
       /\ pc' = "analyzing"
    \/ /\ pc = "store"
       /\ StoreKeys \subseteq DOMAIN result
       /\ ~ RowExists(db, result.email_id)
       /\ pc' # pc
       /\ db' = db

\* C15: a database error in the max-date query, in the existence check or in
\* the insert ends the cycle: the loop goes to the RETRY_DELAY sleep and the
\* remaining conversations of the cycle are not processed.
C15_StoreUnreachableEscalates == [][DatabaseErrorStep => pc' = "sleep_retry"]_vars

FoldedInto(t, outcomes) ==
    {j \in DOMAIN folded : folded[j].msg.threadId = t /\ folded[j].outcome \in outcomes}

Conversations == {threads[i].email : i \in DOMAIN threads}

Returned == {fresult[i] : i \in DOMAIN fresult}

\* C17: a Conversation's is_read is true exactly when every message that went
\* into it, the first one and every one merged into it, was read (had no
\* UNREAD label): one unread message makes it false wherever it comes in the
\* fetch, and what fetch_emails returns carries the same flag.
C17_ReadFlagConjunction ==
    /\ \A c \in Conversations :
          c.is_read = (\A j \in FoldedInto(c.thread_id, {"created", "merged", "partial"}) :
                          ~ folded[j].unread)
    /\ Returned \subseteq Conversations

\* a thread of three messages whose second alone was unread is returned unread
C17_Witness ==
    /\ fpc = "returned"
    /\ \E c \in Returned :
          /\ Len(c.page_content) = 5
          /\ ~ c.is_read
          /\ Len(folded) = 3
          /\ ~ folded[1].unread /\ folded[2].unread /\ ~ folded[3].unread
          /\ \A j \in DOMAIN folded : folded[j].outcome \in {"created", "merged"}

\* the greatest instant among the given messages
MaxMinutes(js) ==
    CHOOSE n \in {folded[j].msg.Date.minutes : j \in js} :
        \A j \in js : folded[j].msg.Date.minutes <= n

\* C18: a Conversation's send_time is the latest of the send times of the
\* messages folded into it (the first one and every one merged), and no step
\* of the fold moves it earlier, whatever the order of the fetch.
C18_MonotonicTimestamp ==
    /\ [](\A c \in Conversations :
            ParseIso(c.send_time).minutes = MaxMinutes(FoldedInto(c.thread_id, {"created", "merged"})))
    /\ [][\A i \in DOMAIN threads :
            ParseIso(threads'[i].email.send_time).minutes
                >= ParseIso(threads[i].email.send_time).minutes]_vars

\* the later message was fetched first and the earlier one merged after it
C18_Witness ==
    \E c \in Conversations :
        /\ Len(folded) = 2
        /\ folded[1].outcome = "created" /\ folded[2].outcome = "merged"
        /\ folded[1].msg.Date.minutes > folded[2].msg.Date.minutes
        /\ c.thread_id = folded[2].msg.threadId
        /\ ParseIso(c.send_time) = folded[1].msg.Date

\* the addresses a text lists
Addresses(text) == {text[i] : i \in DOMAIN text}

NoDuplicate(text) == \A i, j \in DOMAIN text : i # j => text[i] # text[j]

\* C19: a Conversation's from_email lists exactly the addresses of the senders
\* (Reply-To when there is one) of the messages folded into it, its to_email
\* exactly the addresses of their recipients, whatever the order of the
\* fetch, and neither lists an address twice.
C19_AggregationUnion ==
    \A c \in Conversations :
        LET js == FoldedInto(c.thread_id, {"created", "merged"})
        IN  /\ Addresses(c.from_email) = UNION {Addresses(Sender(folded[j].msg)) : j \in js}
            /\ Addresses(c.to_email) = UNION {Addresses(folded[j].msg.To) : j \in js}
            /\ NoDuplicate(c.from_email)
            /\ NoDuplicate(c.to_email)

\* two messages of a thread were folded, the second naming two recipients
C19_Witness ==
    \E c \in Conversations :
        /\ Len(folded) = 2
        /\ folded[2].outcome = "merged"
        /\ Len(folded[2].msg.To) = 2
        /\ c.thread_id = folded[2].msg.threadId

\* C20: at every moment of the fold and in what fetch_emails returns there is
\* at most one Conversation per thread id, and every message that was
\* processed without an error is part of the Conversation of its own thread
\* id and of no other.
C20_OneConversationPerThread ==
    /\ \A i, j \in DOMAIN threads :
          threads[i].email.thread_id = threads[j].email.thread_id => i = j
    /\ \A i, j \in DOMAIN fresult :
          fresult[i].thread_id = fresult[j].thread_id => i = j
    /\ Returned \subseteq Conversations
    /\ \A j \in DOMAIN folded :
          folded[j].outcome \in {"created", "merged"} =>
              \A c \in Conversations :
                  (\E n \in DOMAIN c.page_content : c.page_content[n] = BodyOf(folded[j].msg))
                      <=> c.thread_id = folded[j].msg.threadId
    /\ \A j \in DOMAIN folded :
          folded[j].outcome \in {"created", "merged"} =>
              \E c \in Conversations : c.thread_id = folded[j].msg.threadId

\* three messages of two threads are returned as two Conversations
C20_Witness ==
    /\ fpc = "returned"
    /\ Len(fresult) = 2
    /\ Len(folded) = 3
    /\ \A j \in DOMAIN folded : folded[j].outcome \in {"created", "merged"}

\* the first message of thread t, in fetch order, that was processed without
\* an error
FirstProcessed(t) ==
    CHOOSE j \in FoldedInto(t, {"created", "merged"}) :
        \A h \in FoldedInto(t, {"created", "merged"}) : j <= h

\* C21: a Conversation's id and subject are those of the first message of its
\* thread, in fetch order, that was processed without an error, and a step
\* that merges a later message of the thread (or skips one) leaves the id,
\* thread_id and subject of every Conversation as they were.
C21_FirstMessageSeedsIdentity ==
    /\ [](\A c \in Conversations :
            /\ c.id = folded[FirstProcessed(c.thread_id)].msg.id
            /\ c.subject = folded[FirstProcessed(c.thread_id)].msg.Subject
            /\ c.thread_id = folded[FirstProcessed(c.thread_id)].msg.threadId)
    /\ [][\A i \in DOMAIN threads :
            /\ threads'[i].email.id = threads[i].email.id
            /\ threads'[i].email.thread_id = threads[i].email.thread_id
            /\ threads'[i].email.subject = threads[i].email.subject]_vars

\* the first listed message of the thread was skipped, the second seeded the
\* Conversation and a third with another subject was merged into it
C21_Witness ==
    /\ Len(folded) = 3
    /\ folded[1].outcome = "failed"
    /\ folded[2].outcome = "created"
    /\ folded[3].outcome = "merged"
    /\ folded[1].msg.threadId = folded[2].msg.threadId
    /\ folded[3].msg.threadId = folded[2].msg.threadId
    /\ folded[3].msg.Subject # folded[2].msg.Subject
    /\ \E c \in Conversations : c.id = folded[2].msg.id /\ c.subject = folded[2].msg.Subject

(***************************************************************************)
(* fetch_emails with attachments and malformed answers (SpecParts).        *)
(***************************************************************************)
\* the j-th processed message was answered whole, its Date parses and none of
\* its downloads failed otherwise than by HttpError
WellFormed(j) ==
    /\ folded[j].get = "ok"
    /\ folded[j].msg.Date # Unparsable
    /\ \A i \in DOMAIN folded[j].asked : folded[j].asked[i] # "Exception"

\* the text a message contributes
Contribution(msg) == IF msg.body = "" THEN "No message body available." ELSE msg.body

\* C22: a message whose processing fails (its get raises, the answer has no
\* threadId or no payload, its Date does not parse) does not abort the batch:
\* the loop goes on to the next listed message after every message, failed or
\* not, fetch_emails returns only when the listing is exhausted, and every
\* well-formed message, before or after a failed one, is in the Conversation
\* of its own thread.
C22_MalformedDoesNotAbort ==
    /\ [](fpc \in {"folding", "returned"})
    /\ [](fpc = "returned" => messages = <<>> /\ Returned \subseteq Conversations)
    /\ [](\A j \in DOMAIN folded :
            WellFormed(j) =>
                /\ folded[j].outcome \in {"created", "merged"}
                /\ \E c \in Conversations :
                      /\ c.thread_id = folded[j].msg.threadId
                      /\ \E n \in DOMAIN c.page_content :
                            c.page_content[n] = Contribution(folded[j].msg))
    /\ [][(fpc = "folding" /\ messages # <<>>) =>
            /\ fpc' = "folding"
            /\ messages' = Tail(messages)
            /\ Len(folded') = Len(folded) + 1
            /\ (folded'[Len(folded')].outcome = "failed" => threads' = threads)]_vars

\* a message with an unparsable Date came between two well-formed messages of
\* its thread, and both are in the Conversation that was returned
C22_Witness ==
    /\ fpc = "returned"
    /\ Len(folded) = 3
    /\ WellFormed(1) /\ WellFormed(3)
    /\ folded[2].outcome = "failed" /\ folded[2].msg.Date = Unparsable
    /\ folded[1].msg.threadId = folded[2].msg.threadId
    /\ folded[3].msg.threadId = folded[2].msg.threadId
    /\ \E c \in Returned :
          c.page_content = <<folded[1].msg.body, Separator, folded[3].msg.body>>

\* the processed messages that got as far as their attachments and met a
\* download that gave no data
DownloadFailed(j) ==
    /\ folded[j].get = "ok"
    /\ folded[j].msg.Date # Unparsable
    /\ \E i \in DOMAIN folded[j].asked : folded[j].asked[i] # "data"

\* C23: when the download of an attachment fails, for whatever reason, the
\* message is still folded into the Conversation of its thread, the
\* attachment's descriptor (filename, id) is in the Conversation's attachments
\* and no file was written for it; the message is never skipped.
C23_AttachmentFailureDegrades ==
    \A j \in DOMAIN folded :
        DownloadFailed(j) =>
            LET msg == folded[j].msg
                asked == folded[j].asked
            IN  /\ folded[j].outcome \in {"created", "merged"}
                /\ \A i \in DOMAIN asked :
                      asked[i] # "data" =>
                          /\ \E c \in Conversations :
                                /\ c.thread_id = msg.threadId
                                /\ \E n \in DOMAIN c.attachments :
                                      c.attachments[n] = Descriptor(msg.parts[i])
                          /\ (\A h \in DOMAIN asked :
                                 msg.parts[h].filename = msg.parts[i].filename
                                     => asked[h] # "data")
                                => <<msg.id, msg.parts[i].filename>> \notin files

\* a download answered HttpError and the message was folded with the
\* descriptor recorded and no file
C23_Witness ==
    /\ Len(folded) = 1
    /\ folded[1].outcome = "created"
    /\ folded[1].asked = <<"HttpError", "HttpError">>
    /\ files = {}
    /\ \E c \in Conversations : Len(c.attachments) = 2

(***************************************************************************)
(* The table over time (SpecStore, Spec).                                  *)
(***************************************************************************)
\* C24: no call of store_transaction removes a row or an email_id from the
\* table, whatever its argument and whether or not the database answers; the
\* only step after which a stored email_id is gone is clear_transactions, and
\* after it the table is empty.
C24_OnlyBulkClearRemoves ==
    [][\/ /\ StoredIds(db) \subseteq StoredIds(db')
          /\ \A r \in BagToSet(db) : BagIn(r, db') /\ CopiesIn(r, db') >= CopiesIn(r, db)
       \/ /\ hist' = <<>>
          /\ db' = EmptyBag]_vars

\* store_transaction was just called twice on a table of several rows, the
\* second time with an email_id already stored, and all rows are still there
C24_Witness ==
    /\ Len(hist) = 2
    /\ hist[2].ok
    /\ hist[2].existed
    /\ BagCardinality(db) >= 3
    /\ hist[2].before = db

\* C25: every row of the transactions table carries the subject and the
\* raw_data (the conversation serialized as JSON) of the transaction that
\* update() produced for its email_id, besides email_id, thread_id,
\* from_email, transaction_date, amount and description.
C25_PersistedRecordComplete ==
    \A r \in BagToSet(db) :
        /\ StoreKeys \subseteq DOMAIN r
        /\ {"subject", "raw_data"} \subseteq DOMAIN r
        /\ r.raw_data = JsonDumps(Email(r.email_id))

\* the loop stored a transaction, and its row has the seven columns of the
\* INSERT and no other
C25_Witness ==
    /\ pc = "check"
    /\ BagToSet(db) # {}
    /\ \A r \in BagToSet(db) : DOMAIN r = StoreKeys \cup {"category"}

(***************************************************************************)
(* fetch_emails: the text and the attachments of a Conversation.           *)
(***************************************************************************)
\* the contributions of the first n processed messages to thread t, in fetch
\* order, with the separator between them
RECURSIVE ExpectedContent(_, _)
ExpectedContent(t, n) ==
    IF n = 0 THEN <<>>
    ELSE LET before == ExpectedContent(t, n - 1)
         IN  IF n \notin FoldedInto(t, {"created", "merged", "partial"}) THEN before
             ELSE IF before = <<>> THEN <<Contribution(folded[n].msg)>>
             ELSE before \o <<"\n\n--- New Message in Thread ---\n\n", Contribution(folded[n].msg)>>

\* C26: a Conversation's page_content is the bodies of the messages that went
\* into it, in fetch order, with the marker '--- New Message in Thread ---'
\* between them; a message whose extracted body is empty contributes the
\* placeholder text, so no part of page_content, and page_content itself, is
\* ever empty.
C26_BodyConcatenation ==
    \A c \in Conversations :
        /\ c.page_content = ExpectedContent(c.thread_id, Len(folded))
        /\ c.page_content # <<>>
        /\ \A n \in DOMAIN c.page_content : c.page_content[n] # ""

\* a message with an empty body was merged after one with a body
C26_Witness ==
    /\ Len(folded) = 2
    /\ folded[1].outcome = "created" /\ folded[1].msg.body # ""
    /\ folded[2].outcome = "merged" /\ folded[2].msg.body = ""
    /\ \E c \in Conversations :
          c.page_content = <<folded[1].msg.body, Separator, "No message body available.">>

\* C27: a Conversation's attachments hold the descriptor of every attachment
\* of every message that went into it, and no two entries of the list are the
\* same (filename, id), also when the first message of the thread names the
\* same attachment twice.
C27_AttachmentUnion ==
    \A c \in Conversations :
        /\ \A j \in FoldedInto(c.thread_id, {"created", "merged", "partial"}) :
              \A i \in DOMAIN folded[j].msg.parts :
                  \E n \in DOMAIN c.attachments :
                      c.attachments[n] = Descriptor(folded[j].msg.parts[i])
        /\ \A n, m \in DOMAIN c.attachments :
              c.attachments[n] = c.attachments[m] => n = m

\* a message naming the same attachment twice was merged into a Conversation
\* that had it already, and the list has each descriptor once
C27_Witness ==
    /\ Len(folded) = 2
    /\ folded[1].outcome = "created"
    /\ folded[2].outcome = "merged"
    /\ Len(folded[2].msg.parts) = 2
    /\ folded[2].msg.parts[1] = folded[2].msg.parts[2]
    /\ \E c \in Conversations :
          /\ Len(c.attachments) = 2
          /\ c.attachments[1] # c.attachments[2]

(***************************************************************************)
(* The poll loop and the stages (Spec, SpecAnalyze).                       *)
(***************************************************************************)
\* C28: the duplicate check looks at the message id alone: a conversation
\* whose id has no row is always handed to analyze_email, also when a row
\* with its thread_id is stored; so a thread fetched in two cycles under two
\* representative message ids is analyzed in both and can be stored twice,
\* under two email_ids with one thread_id.
C28_DedupKeyedOnMessageId ==
    [][(pc = "check" /\ ~ RowExists(db, emails[idx].id))
          => (pc' = "analyzing" /\ email' = emails[idx])]_vars

\* two rows of one thread under two email_ids
C28_Witness ==
    \E r1, r2 \in BagToSet(db) :
        /\ r1.thread_id = r2.thread_id
        /\ r1.email_id # r2.email_id

\* the number of sleeps of a stage so far
NumSleeps(stage) == Len(StageEvents(stage)) - Len(StageRuns(stage))

\* C29: every sleep of a stage lasts RETRY_DELAY seconds whatever the number
\* of the attempt; it comes right after an attempt of the same stage that
\* raised and is followed by another attempt of that stage; so a stage sleeps
\* at most MAX_RETRIES - 1 times and neither after its last attempt nor after
\* an attempt that returned.
C29_ConstantRetryDelay ==
    /\ \A i \in DOMAIN events :
          events[i].event = "sleep" =>
              /\ events[i].secs = RETRY_DELAY
              /\ i > 1
              /\ events[i - 1].event = "run"
              /\ events[i - 1].stage = events[i].stage
              /\ events[i - 1].kind \in ExceptionKinds
              /\ IF i < Len(events)
                 THEN /\ events[i + 1].event = "run"
                      /\ events[i + 1].stage = events[i].stage
                 ELSE /\ apc = events[i].stage
                      /\ attempt < MAX_RETRIES
    /\ \A s \in Stages :
          /\ NumSleeps(s) <= IF MAX_RETRIES = 0 THEN 0 ELSE MAX_RETRIES - 1
          /\ NumSleeps(s) <= Len(StageRuns(s))
          /\ apc = DonePos(s) =>
                /\ events = <<>> \/ LastOf(events).event = "run"
                /\ NumSleeps(s) < Len(StageRuns(s)) \/ StageEvents(s) = <<>>

\* a stage slept twice, after its first and its second attempt, and its third
\* and last attempt raised too: no third sleep
C29_Witness ==
    /\ MAX_RETRIES = 3
    /\ apc = "extracted"
    /\ Len(StageRuns("extract")) = 3
    /\ NumSleeps("extract") = 2
    /\ AllRaised("extract")
    /\ LastOf(events).event = "run"

\* the loop is inside "for email in emails"
InForLoop == pc \in {"check", "analyzing", "store"}

\* the for loop goes to the next conversation, or ends
NextConversation ==
    /\ idx' = idx + 1
    /\ pc' = IF idx < Len(emails) THEN "check" ELSE "sleep_poll"

\* C30: in a cycle that no exception leaves, the conversations the fetch
\* returned are handled one after the other, each exactly once: each is either
\* skipped as already processed or passed to analyze_email, once; whatever
\* analyze_email returns and whatever store_transaction returns, the loop goes
\* on to the next conversation, and the sleep comes only after the last.
C30_CycleRunsToCompletion ==
    /\ [](InForLoop =>
            /\ idx \in 1..Len(emails)
            /\ (pc \in {"analyzing", "store"} => email = emails[idx]))
    /\ [][InForLoop => emails' = emails \/ pc' = "sleep_retry"]_vars
    /\ [][pc = "check" =>
            \/ NextConversation
            \/ pc' = "analyzing" /\ idx' = idx /\ email' = emails[idx]]_vars
    /\ [][(pc = "analyzing" /\ pc' # "analyzing") =>
            \/ pc' = "sleep_retry"
            \/ NextConversation
            \/ pc' = "store" /\ idx' = idx]_vars
    /\ [][pc = "store" => NextConversation]_vars
    /\ [][(pc' = "check" /\ ~ InForLoop) => pc = "fetch" /\ idx' = 1]_vars
    /\ [][(pc' = "sleep_poll" /\ pc # "sleep_poll") => idx' = Len(emails') + 1]_vars

\* two conversations were fetched; the first was handled and left no row, the
\* second was analyzed and stored after it, and the cycle is at its sleep
C30_Witness ==
    /\ pc = "sleep_poll"
    /\ Len(emails) = 2
    /\ idx = 3
    /\ success
    /\ StoredIds(db) = {emails[2].id}

(***************************************************************************)
(* fetch_emails: a message that fails while it is merged (SpecFetch).      *)
(***************************************************************************)
\* the step processed a message and its processing raised
MessageFailed ==
    /\ Len(folded') = Len(folded) + 1
    /\ folded'[Len(folded')].outcome \in {"failed", "partial"}

\* C31: a message whose processing fails, also while it is being merged into
\* the Conversation of its thread (its Date cannot be compared with the
\* Conversation's send_time), leaves every Conversation as it was:
\* page_content, attachments, is_read, send_time, from_email and to_email are
\* as if the message had not been listed.
C31_SkippingIsAtomic == [][MessageFailed => threads' = threads]_vars

\* an unread message without UTC offset failed in the merge into a read
\* Conversation whose send_time has one; its body and its flag are in
C31_Witness ==
    /\ Len(folded) = 2
    /\ folded[1].outcome = "created" /\ ~ folded[1].unread
    /\ folded[2].outcome = "partial" /\ folded[2].unread
    /\ \E c \in Conversations :
          /\ c.page_content = <<folded[1].msg.body, Separator, folded[2].msg.body>>
          /\ ~ c.is_read
          /\ ParseIso(c.send_time) = folded[1].msg.Date
          /\ c.from_email = folded[1].msg.From

(***************************************************************************)
(* The windows of consecutive cycles (SpecWindow).                         *)
(***************************************************************************)
\* C32: whatever transaction dates are stored, the window of a cycle does not
\* start after it ends, and the window of the next cycle does not start after
\* the end of the window of the cycle before it: no time between two windows
\* is left out.
C32_NoGapBetweenWindows ==
    /\ [](pc = "fetch" => start_time.minutes <= end_time.minutes)
    /\ [][IF pc = "begin_cycle" /\ end_time # None
          THEN start_time'.minutes <= end_time.minutes
          ELSE TRUE]_vars

\* a second cycle began over a table whose latest transaction_date is later
\* than the clock reading of the first cycle
C32_Witness ==
    /\ pc = "fetch"
    /\ end_time = Datetime(3000)
    /\ BagToSet(db) # {}
    /\ MaxDate(db) \in DOMAIN FromIsoformat
    /\ start_time = Datetime(FromIsoformat[MaxDate(db)].minutes - OVERLAP)
    /\ start_time.minutes > 1900

(***************************************************************************)
(* The table's creator (SpecSchema).                                       *)
(***************************************************************************)
\* C33: whichever of the tracker's init_db and the dashboard's init_db created
\* the transactions table, a store_transaction that meets no database fault,
\* for a transaction with every key and an email_id not yet in the table,
\* returns True and leaves a row of that email_id in the table.
C33_CreationOrderDoesNotMatter ==
    hist # <<>> =>
        LET c == hist[Len(hist)]
        IN  (c.ok /\ StoreKeys \subseteq DOMAIN c.t /\ ~ c.existed) =>
                (c.ret /\ RowExists(db, c.t.email_id))

\* the dashboard created the table, the tracker started after it, and its
\* store of a complete transaction for a new email_id returned False: the
\* table is still empty
C33_Witness ==
    /\ columns = DashboardColumns
    /\ pc = "begin_cycle"
    /\ hist # <<>>
    /\ hist[Len(hist)].ok
    /\ StoreKeys \subseteq DOMAIN hist[Len(hist)].t
    /\ ~ hist[Len(hist)].existed
    /\ ~ hist[Len(hist)].ret
    /\ db = EmptyBag

====
